---- MODULE Spec2Model ----
(***************************************************************************)
(* Continuous-source decay simulation of nuscale_senior_design.py: the     *)
(* step loop that injects the source, advances the inventory, bins the     *)
(* gamma intensity, samples output rows and writes decay.csv and           *)
(* nuclide_contributions.csv.                                              *)
(*                                                                         *)
(* Representation:                                                         *)
(*  - steps is a rational; the variable steps holds its numerator over     *)
(*    StepsDen (steps = 3 with StepsDen = 2 is the configured value 1.5).  *)
(*  - activities are naturals, probabilities are percents (100 = 1.0), so  *)
(*    sums are exact; Python's float rounding is not modelled.             *)
(*  - an energy key of the yield table is the decimal string "u.t", kept   *)
(*    as the pair <<u, t>>; Float gives its value in tenths of an MeV.     *)
(*  - a CSV line is the sequence of its comma-separated cells; a cell is   *)
(*    a sequence of characters (the header cells of the per-nuclide file   *)
(*    are nuclide names).  A file with no content (never written, or       *)
(*    truncated) is <<>>.                                                  *)
(***************************************************************************)
EXTENDS Integers, Sequences, FiniteSets, TLC

\* Bounds of the configurations explored.
MaxStepsNum == 8
StepsDen == 2
MaxOutputRows == 4
MaxNeg == 1

VARIABLES steps, output_rows, nuclide_data, source_per_timestep,
          decayed, output, contributions, nuclide_list,
          i, rows, x, bins, decay_csv, nuclides_csv, nuclides_writes,
          pc, error

vars == <<steps, output_rows, nuclide_data, source_per_timestep,
          decayed, output, contributions, nuclide_list,
          i, rows, x, bins, decay_csv, nuclides_csv, nuclides_writes,
          pc, error>>

----------------------------------------------------------------------------
\* Arithmetic and formatting helpers

\* math.floor(a / b) for b # 0
FloorDiv(a, b) == IF b > 0 THEN a \div b ELSE (0 - a) \div (0 - b)

\* Python's a % b for b # 0 (the result has the sign of b)
PyMod(a, b) == a - b * FloorDiv(a, b)

Digits == <<"0", "1", "2", "3", "4", "5", "6", "7", "8", "9">>

\* str(n) of a natural number: its decimal digits
RECURSIVE Str(_)
Str(n) == IF n < 10 THEN <<Digits[n + 1]>>
          ELSE Str(n \div 10) \o <<Digits[(n % 10) + 1]>>

\* float(energy) of a key "u.t", in tenths of an MeV
Float(energy) == energy[1] * 10 + energy[2]

RECURSIVE SumOver(_, _)
SumOver(S, f) == IF S = {} THEN 0
                 ELSE LET e == CHOOSE e \in S : TRUE
                      IN f[e] + SumOver(S \ {e}, f)

----------------------------------------------------------------------------
\* Data: a four-nuclide excerpt of the mass-135 chain

Nuclides == {"I-135", "Xe-135", "Cs-135", "Ba-135"}

\* source rates of the excerpt, in units of 1e11 Bq (rounded)
source == [n \in {"I-135", "Xe-135"} |-> IF n = "I-135" THEN 9 ELSE 18]

timestep_data == [u \in {"s", "m", "d", "y"} |->
                    [multiplier |-> IF u = "s" THEN 1
                                    ELSE IF u = "m" THEN 60
                                    ELSE IF u = "d" THEN 86400 ELSE 31540000]]

timestep == "m"

\* the per-step dose: rate times the number of seconds in the time step
SourcePerTimestep ==
    [n \in DOMAIN source |-> source[n] * timestep_data[timestep].multiplier]

\* The decay oracle (Inventory.decay(1, timestep)): every radioactive nuclide
\* keeps half of its activity, the other half feeds its daughter; the stable
\* end of the chain is listed with activity 0.  A daughter enters the
\* inventory one generation per quantum.
Daughter == [n \in {"I-135", "Xe-135", "Cs-135"} |->
               IF n = "I-135" THEN "Xe-135"
               ELSE IF n = "Xe-135" THEN "Cs-135" ELSE "Ba-135"]

Stable == {"Ba-135"}

Decay(inv) ==
    LET dom  == DOMAIN inv \cup {Daughter[n] : n \in DOMAIN inv \cap DOMAIN Daughter}
        kept(n) == IF n \in DOMAIN inv THEN inv[n] \div 2 ELSE 0
        fed(n)  == SumOver({p \in DOMAIN inv \cap DOMAIN Daughter : Daughter[p] = n},
                           [p \in DOMAIN inv |-> inv[p] - (inv[p] \div 2)])
    IN [n \in dom |-> IF n \in Stable THEN 0 ELSE kept(n) + fed(n)]

\* Inventory.add(src): activities are added nuclide by nuclide, new entries inserted
Add(inv, src) ==
    [n \in DOMAIN inv \cup DOMAIN src |->
        (IF n \in DOMAIN inv THEN inv[n] ELSE 0)
      + (IF n \in DOMAIN src THEN src[n] ELSE 0)]

EmptyInventory == [n \in {} |-> 0]

\* Yield dictionaries a nuclide's entry of nuclides.json may hold
AllBinsGammas == (<<0, 5>> :> 50) @@ (<<1, 0>> :> 100) @@ (<<2, 0>> :> 30)
              @@ (<<3, 9>> :> 20) @@ (<<4, 9>> :> 10) @@ (<<5, 0>> :> 5)
SingleGamma   == (<<1, 0>> :> 100)
NoGammas      == [e \in {} |-> 0]

GammaChoices == {AllBinsGammas, SingleGamma, NoGammas}

\* nuclides.json: an entry, with its 'gammas', for some of the nuclides
NuclideData ==
    UNION {[S -> [gammas : GammaChoices]] : S \in SUBSET Nuclides}

----------------------------------------------------------------------------
\* The pieces of the loop body

Header == << <<"T","i","m","e">>,
             <<"B","i","n"," ","1">>, <<"B","i","n"," ","2">>,
             <<"B","i","n"," ","3">>, <<"B","i","n"," ","4">>,
             <<"B","i","n"," ","5">>, <<"B","i","n"," ","6">> >>

\* while i < steps
StepsLess(k) == k * StepsDen < steps

\* a sampling test that fires on the last step of each interval instead of the first
MaterializedOffByOne(k, xx) == PyMod(k + 1, xx) = 0

\* if i % x == 0
Materialized(k, xx) == PyMod(k, xx) = 0

\* a loop that advances the inventory only in the steps it records
NextInventoryOnlyWhenSampled(inv, src) ==
    IF Materialized(i, x) THEN Decay(Add(inv, src)) ELSE inv

\* decayed.add(source_per_timestep); decayed = decayed.decay(1, timestep)
NextInventory(inv, src) == Decay(Add(inv, src))

\* a lookup that takes a nuclide without an entry to have no gammas
LookupDefaultEmpty(data, n) ==
    [raises |-> FALSE,
     gammas |-> IF n \in DOMAIN data THEN data[n].gammas ELSE NoGammas]

\* gammas = nuclide_data[nuclide]['gammas']: raises KeyError without an entry
Lookup(data, n) ==
    IF n \in DOMAIN data
    THEN [raises |-> FALSE, gammas |-> data[n].gammas]
    ELSE [raises |-> TRUE, gammas |-> NoGammas]

\* the nuclides of `numbers` whose lookup raises
Missing(numbers, data) == {n \in DOMAIN numbers : Lookup(data, n).raises}

\* an if/elif ladder that compares with <=: a boundary energy falls in the lower bin
BinIndexClosedAbove(e) ==
    IF e <= 10 THEN 1
    ELSE IF e <= 20 THEN 2
    ELSE IF e <= 30 THEN 3
    ELSE IF e <= 40 THEN 4
    ELSE IF e <= 50 THEN 5
    ELSE 6

\* the if/elif ladder on e: the index (1..6) of the bin of energy e
BinIndex(e) ==
    IF e < 10 THEN 1
    ELSE IF e < 20 THEN 2
    ELSE IF e < 30 THEN 3
    ELSE IF e < 40 THEN 4
    ELSE IF e < 50 THEN 5
    ELSE 6

\* the bins after the nuclides of `visited` have been processed
Accumulate(numbers, visited, data) ==
    [k \in 1..6 |->
        SumOver(visited,
          [n \in visited |->
             LET gammas == Lookup(data, n).gammas
                 hit == {energy \in DOMAIN gammas : BinIndex(Float(energy)) = k}
             IN SumOver(hit, [energy \in hit |-> numbers[n] * gammas[energy]])])]

\* str(i) + ',' + ','.join(map(str, bins)) + '\n'
OutputRow(k, b) == <<Str(k)>> \o [j \in 1..6 |-> Str(b[j])]

\* a file opened in append mode: every flush adds the whole series again
AppendToFile(old, data) == old \o data

\* open('decay.csv', 'w'); csv.write(output)
Rewrite(old, data) == data

Restrict(f, S) == [n \in S |-> f[n]]

\* a table that leaves the cell of an absent nuclide empty
CellBlankWhenAbsent(step, nuclide) ==
    IF nuclide \in DOMAIN step THEN Str(step[nuclide]) ELSE <<>>

\* str(step[nuclide]) if nuclide in step, else '0'
Cell(step, nuclide) ==
    IF nuclide \in DOMAIN step THEN Str(step[nuclide]) ELSE <<"0">>

\* the orders in which a set can be iterated
Orderings(S) ==
    {s \in [1..Cardinality(S) -> S] :
        \A a, b \in 1..Cardinality(S) : a # b => s[a] # s[b]}

\* contrib_output: the header line, then one line per entry of contributions
DenseTable(order, contrib) ==
    <<order>> \o
    [r \in 1..Len(contrib) |->
        [c \in 1..Len(order) |-> Cell(contrib[r], order[c])]]

----------------------------------------------------------------------------
\* The program

\* The state before line 92: x is not yet bound and bins not yet assigned
\* (0 stands for both); neither file has been written.
Init ==
    /\ steps \in (0 - MaxNeg)..MaxStepsNum
    /\ output_rows \in (0 - MaxNeg)..MaxOutputRows
    /\ nuclide_data \in NuclideData
    /\ source_per_timestep = SourcePerTimestep
    /\ decayed = EmptyInventory
    /\ output = <<Header>>
    /\ contributions = <<>>
    /\ nuclide_list = {}
    /\ i = 0
    /\ rows = -1
    /\ x = 0
    /\ bins = [k \in 1..6 |-> 0]
    /\ decay_csv = <<>>
    /\ nuclides_csv = <<>>
    /\ nuclides_writes = 0
    /\ pc = "start"
    /\ error = "none"

\* x = math.floor(steps / output_rows)
SetUp ==
    /\ pc = "start"
    /\ IF output_rows = 0
       THEN /\ pc' = "error"
            /\ error' = "ZeroDivisionError"
            /\ x' = x
       ELSE /\ x' = FloorDiv(steps, StepsDen * output_rows)
            /\ pc' = "loop"
            /\ error' = error
    /\ UNCHANGED <<steps, output_rows, nuclide_data, source_per_timestep,
                   decayed, output, contributions, nuclide_list, i, rows,
                   bins, decay_csv, nuclides_csv, nuclides_writes>>

\* One iteration of the loop in which i % x raises: x is 0
StepZeroDivision ==
    /\ pc = "loop" /\ StepsLess(i)
    /\ x = 0
    /\ bins' = [k \in 1..6 |-> 0]
    /\ pc' = "error"
    /\ error' = "ZeroDivisionError"
    /\ UNCHANGED <<steps, output_rows, nuclide_data, source_per_timestep,
                   decayed, output, contributions, nuclide_list, i, rows, x,
                   decay_csv, nuclides_csv, nuclides_writes>>

\* One iteration in which nuclide_data[nuclide] raises for the nuclide
\* `failing`, after the nuclides of `visited` have been processed
StepKeyError ==
    /\ pc = "loop" /\ StepsLess(i)
    /\ x # 0
    /\ LET mat     == Materialized(i, x)
           numbers == NextInventory(decayed, source_per_timestep)
           missing == Missing(numbers, nuclide_data)
       IN /\ missing # {}
          /\ \E failing \in missing :
             \E visited \in SUBSET (DOMAIN numbers \ missing) :
                /\ decayed' = numbers
                /\ nuclide_list' = nuclide_list \cup visited \cup {failing}
                /\ contributions' =
                      IF mat THEN Append(contributions, Restrict(numbers, visited))
                      ELSE contributions
                /\ rows' = IF mat THEN rows + 1 ELSE rows
                /\ bins' = Accumulate(numbers, visited, nuclide_data)
    /\ pc' = "error"
    /\ error' = "KeyError"
    /\ UNCHANGED <<steps, output_rows, nuclide_data, source_per_timestep,
                   output, i, x, decay_csv, nuclides_csv, nuclides_writes>>

\* One iteration that runs to i += 1
StepOk ==
    /\ pc = "loop" /\ StepsLess(i)
    /\ x # 0
    /\ LET mat     == Materialized(i, x)
           numbers == NextInventory(decayed, source_per_timestep)
       IN /\ Missing(numbers, nuclide_data) = {}
          /\ decayed' = numbers
          /\ nuclide_list' = nuclide_list \cup DOMAIN numbers
          /\ contributions' =
                IF mat THEN Append(contributions, numbers) ELSE contributions
          /\ rows' = IF mat THEN rows + 1 ELSE rows
          /\ bins' = Accumulate(numbers, DOMAIN numbers, nuclide_data)
          /\ output' = IF mat THEN Append(output, OutputRow(i, bins')) ELSE output
          /\ decay_csv' = IF mat THEN Rewrite(decay_csv, output') ELSE decay_csv
    /\ i' = i + 1
    /\ UNCHANGED <<steps, output_rows, nuclide_data, source_per_timestep,
                   x, nuclides_csv, nuclides_writes, pc, error>>

\* One iteration whose open or write of decay.csv raises: the file is left
\* with some prefix of the lines
StepWriteFails ==
    /\ pc = "loop" /\ StepsLess(i)
    /\ x # 0
    /\ Materialized(i, x)
    /\ LET numbers == NextInventory(decayed, source_per_timestep)
       IN /\ Missing(numbers, nuclide_data) = {}
          /\ decayed' = numbers
          /\ nuclide_list' = nuclide_list \cup DOMAIN numbers
          /\ contributions' = Append(contributions, numbers)
          /\ rows' = rows + 1
          /\ bins' = Accumulate(numbers, DOMAIN numbers, nuclide_data)
          /\ output' = Append(output, OutputRow(i, bins'))
          /\ \E kept \in 0..Len(output') :
                decay_csv' = SubSeq(output', 1, kept)
    /\ pc' = "error"
    /\ error' = "OSError(decay.csv)"
    /\ UNCHANGED <<steps, output_rows, nuclide_data, source_per_timestep,
                   i, x, nuclides_csv, nuclides_writes>>

\* The loop is left and nuclide_contributions.csv is written
Finish ==
    /\ pc = "loop" /\ ~StepsLess(i)
    /\ \E order \in Orderings(nuclide_list) :
          nuclides_csv' = DenseTable(order, contributions)
    /\ nuclides_writes' = nuclides_writes + 1
    /\ pc' = "done"
    /\ UNCHANGED <<steps, output_rows, nuclide_data, source_per_timestep,
                   decayed, output, contributions, nuclide_list, i, rows, x,
                   bins, decay_csv, error>>

\* The loop is left and the open or write of nuclide_contributions.csv raises
FinishWriteFails ==
    /\ pc = "loop" /\ ~StepsLess(i)
    /\ nuclides_csv' = <<>>
    /\ nuclides_writes' = nuclides_writes + 1
    /\ pc' = "error"
    /\ error' = "OSError(nuclide_contributions.csv)"
    /\ UNCHANGED <<steps, output_rows, nuclide_data, source_per_timestep,
                   decayed, output, contributions, nuclide_list, i, rows, x,
                   bins, decay_csv>>

Next ==
    \/ SetUp
    \/ StepZeroDivision
    \/ StepKeyError
    \/ StepOk
    \/ StepWriteFails
    \/ Finish
    \/ FinishWriteFails

Spec == Init /\ [][Next]_vars

----------------------------------------------------------------------------
\* Reference definitions used by the properties

Abs(n) == IF n < 0 THEN 0 - n ELSE n

\* the run has not raised
Running == pc \in {"loop", "done"}

\* steps is an integer >= 1 and 1 <= output_rows <= steps
IntegerConfig ==
    /\ steps >= StepsDen
    /\ steps % StepsDen = 0
    /\ output_rows >= 1
    /\ output_rows * StepsDen <= steps

\* (decay after inject) applied k times to the empty inventory
RECURSIVE Iterate(_)
Iterate(k) == IF k = 0 THEN EmptyInventory
              ELSE Decay(Add(Iterate(k - 1), SourcePerTimestep))

\* the number of steps below n that are multiples of the interval xx
SampledBelow(n, xx) == Cardinality({k \in 0..(n - 1) : k % Abs(xx) = 0})

\* the step index of the j-th recorded row
NthSampled(j) == (j - 1) * Abs(x)

\* activity x probability summed over the yield entries with lo <= energy < hi
\* (hi = -1: no upper end), energies in tenths of an MeV
RangeSum(inv, lo, hi) ==
    SumOver(DOMAIN inv,
      [n \in DOMAIN inv |->
         LET g == nuclide_data[n].gammas
             sel == {e \in DOMAIN g : lo <= Float(e) /\ (hi = -1 \/ Float(e) < hi)}
         IN SumOver(sel, [e \in sel |-> inv[n] * g[e]])])

TotalActivity(inv) == SumOver(DOMAIN inv, inv)

----------------------------------------------------------------------------
\* C1: for integer steps >= 1 and 1 <= output_rows <= steps the interval is
\* x = floor(steps / output_rows) >= 1; step k < i has an output row iff
\* k mod x = 0, the rows are in step order, the Time cell of a row is str of
\* its step index, and a complete run has run all steps and holds
\* ceil(steps / x) rows.
C1_SampledSteps ==
    (IntegerConfig /\ Running) =>
        LET n  == steps \div StepsDen
            xx == n \div output_rows
            cnt == Cardinality({k \in 0..(i - 1) : k % xx = 0})
        IN /\ x = xx
           /\ x >= 1
           /\ Len(output) = 1 + cnt
           /\ \A j \in 1..cnt : output[j + 1][1] = Str((j - 1) * xx)
           /\ \A k \in 0..(i - 1) :
                 (k % xx = 0) <=>
                    (\E j \in 2..Len(output) : output[j][1] = Str(k))
           /\ (xx = 1 => Len(output) = 1 + i)
           /\ (pc = "done" =>
                 /\ i = n
                 /\ Len(output) - 1 = (n + xx - 1) \div xx)

\* a finished run with interval 2 whose rows are steps 0 and 2
C1_Witness ==
    /\ pc = "done" /\ IntegerConfig
    /\ x = 2 /\ i = 4
    /\ Len(output) = 3
    /\ output[3][1] = <<"2">>

\* C2: the per-step dose never changes, and after i steps (recorded or not)
\* the inventory is (decay after inject) applied i times to the empty
\* inventory; the bins of the last step and every snapshot are taken from
\* that inventory, whatever output_rows is.
C2_EveryStepAdvances ==
    /\ source_per_timestep = SourcePerTimestep
    /\ Running =>
         /\ decayed = Iterate(i)
         /\ (i > 0 =>
               bins = Accumulate(Iterate(i), DOMAIN Iterate(i), nuclide_data))
         /\ \A r \in 1..Len(contributions) :
               contributions[r] = Iterate(NthSampled(r) + 1)

\* a finished run of at least three steps, some of them not recorded
C2_Witness ==
    /\ pc = "done"
    /\ i >= 3
    /\ Len(contributions) < i
    /\ Len(contributions) >= 2

\* C3: once a step has finished, decay.csv holds the header and one row per
\* step recorded so far, in increasing step order, the newest last;
\* nuclide_contributions.csv is not written before the loop is left and is
\* written exactly once by a complete run.
C3_FlushedEveryRow ==
    /\ (Running /\ i > 0) =>
          /\ decay_csv = output
          /\ decay_csv[1] = Header
          /\ Len(decay_csv) = 1 + SampledBelow(i, x)
          /\ \A j \in 1..(Len(decay_csv) - 1) :
                /\ NthSampled(j) < i
                /\ decay_csv[j + 1][1] = Str(NthSampled(j))
    /\ pc \in {"start", "loop"} => (nuclides_writes = 0 /\ nuclides_csv = <<>>)
    /\ pc = "done" =>
          (nuclides_writes = 1 /\ nuclides_csv # <<>> /\ ~StepsLess(i))
    /\ nuclides_writes <= 1

\* in the middle of a run: two rows flushed, steps left, the table not written
C3_Witness ==
    /\ pc = "loop"
    /\ StepsLess(i)
    /\ Len(decay_csv) = 3
    /\ decay_csv[3][1] = Str(i - 1)
    /\ nuclides_writes = 0

\* C4: at the end of a complete run the header of the per-nuclide table lists
\* every nuclide of the universe once; the table has one row per recorded
\* step, in the order of the bin series; the cell of nuclide n in the row of
\* step s is str of n's activity after step s when n is in that inventory
\* and '0' otherwise; the universe holds every nuclide of every snapshot.
C4_DenseTable ==
    pc = "done" =>
        LET header == nuclides_csv[1]
        IN /\ Len(header) = Cardinality(nuclide_list)
           /\ {header[c] : c \in 1..Len(header)} = nuclide_list
           /\ Len(nuclides_csv) = Len(output)
           /\ \A r \in 1..(Len(output) - 1) :
                 LET s   == NthSampled(r)
                     inv == Iterate(s + 1)
                 IN /\ output[r + 1][1] = Str(s)
                    /\ DOMAIN inv \subseteq nuclide_list
                    /\ Len(nuclides_csv[r + 1]) = Len(header)
                    /\ \A c \in 1..Len(header) :
                          nuclides_csv[r + 1][c] =
                             IF header[c] \in DOMAIN inv
                             THEN Str(inv[header[c]])
                             ELSE <<"0">>

\* a table with a zero-filled cell: a nuclide of the universe absent from a row
C4_Witness ==
    /\ pc = "done"
    /\ Len(nuclides_csv) >= 3
    /\ \E c \in 1..Len(nuclides_csv[1]) :
          /\ nuclides_csv[1][c] \notin DOMAIN contributions[1]
          /\ nuclides_csv[1][c] \in DOMAIN contributions[2]
          /\ nuclides_csv[2][c] = <<"0">>

\* C5: bin k (k = 1..5) is the sum of activity x probability over the yield
\* entries with k-1 <= energy < k MeV, bin 6 that over the entries with
\* energy >= 5 MeV; the six bins add up to the sum over all entries, which is
\* the total activity when every nuclide has one yield of probability 1.
C5_BinVector ==
    (Running /\ i > 0) =>
        /\ \A k \in 1..5 : bins[k] = RangeSum(decayed, (k - 1) * 10, k * 10)
        /\ bins[6] = RangeSum(decayed, 50, -1)
        /\ SumOver(1..6, bins) = RangeSum(decayed, 0, -1)
        /\ (\A n \in DOMAIN decayed :
               /\ Cardinality(DOMAIN nuclide_data[n].gammas) = 1
               /\ \A e \in DOMAIN nuclide_data[n].gammas :
                     nuclide_data[n].gammas[e] = 100)
            => SumOver(1..6, bins) = 100 * TotalActivity(decayed)
        /\ Materialized(i - 1, x) =>
              \A k \in 1..6 : output[Len(output)][k + 1] = Str(bins[k])

\* every nuclide yields only at exactly 1.0 MeV: all intensity is in bin 2
C5_Witness ==
    /\ pc = "loop" /\ i > 1
    /\ \A n \in DOMAIN decayed : nuclide_data[n].gammas = SingleGamma
    /\ bins[2] > 0
    /\ bins[1] = 0

\* C6: with output_rows >= steps the interval used is 1, no division or
\* modulo raises, and every step is recorded.
C6_ClampedToOne ==
    ( /\ steps >= StepsDen /\ steps % StepsDen = 0
      /\ output_rows * StepsDen >= steps
      /\ pc # "start" ) =>
        /\ x = 1
        /\ error # "ZeroDivisionError"
        /\ (pc = "done" => Len(output) = 1 + i)

\* C7 as stated, for the runs of a configuration with integer steps >= 1 and
\* 1 <= output_rows <= steps: after the KeyError the file holds the header
\* and the rows of the steps recorded before the failing step.
C7_FileHoldsHeaderAndRows ==
    (IntegerConfig /\ error = "KeyError") =>
        /\ Len(decay_csv) = 1 + SampledBelow(i, x)
        /\ decay_csv[1] = Header
        /\ \A j \in 1..SampledBelow(i, x) :
              decay_csv[j + 1][1] = Str(NthSampled(j))

\* C7 amended: a step completes only if every nuclide of its inventory has an
\* entry; a run that meets a nuclide without one raises at that step, emits
\* no row for it, and leaves decay.csv as the last flush wrote it: the header
\* and the rows of the earlier recorded steps when the failing step is not
\* step 0, and not written at all when it is step 0.
C7_KeyErrorAborts ==
    /\ Running =>
          \A k \in 1..i : DOMAIN Iterate(k) \subseteq DOMAIN nuclide_data
    /\ error = "KeyError" =>
          /\ pc = "error"
          /\ ~(DOMAIN Iterate(i + 1) \subseteq DOMAIN nuclide_data)
          /\ \A k \in 1..i : DOMAIN Iterate(k) \subseteq DOMAIN nuclide_data
          /\ Len(output) = 1 + SampledBelow(i, x)
          /\ \A j \in 1..SampledBelow(i, x) :
                output[j + 1][1] = Str(NthSampled(j))
          /\ decay_csv = IF i = 0 THEN <<>> ELSE output

\* a KeyError at recorded step 1, after the row of step 0 was flushed
C7_Witness ==
    /\ error = "KeyError"
    /\ i = 1
    /\ Materialized(i, x)
    /\ Len(decay_csv) = 2
    /\ decay_csv[2][1] = <<"0">>
    /\ Len(contributions) = 2

\* C8: a configuration with steps <= 0 or with a zero or negative interval
\* executes no step, writes no file and does not complete.
C8_RejectedAtSetup ==
    ( \/ steps <= 0
      \/ (output_rows # 0 /\ FloorDiv(steps, StepsDen * output_rows) <= 0) ) =>
        /\ pc # "done"
        /\ i = 0
        /\ decayed = EmptyInventory
        /\ decay_csv = <<>>
        /\ nuclides_writes = 0

\* C9, for 1 <= output_rows <= steps: the loop never runs a step with index
\* >= floor(steps), and a complete run has run exactly floor(steps) steps.
C9_FloorOfSteps ==
    (output_rows >= 1 /\ output_rows * StepsDen <= steps) =>
        /\ i <= steps \div StepsDen
        /\ (pc = "done" => i = steps \div StepsDen)

\* C10, for integer steps >= 1 and 1 <= output_rows <= steps: a failed write
\* of decay.csv leaves the row in the in-memory series and in the ledger, and
\* the run goes on.
C10_FlushFailureContinues ==
    (IntegerConfig /\ error = "OSError(decay.csv)") =>
        /\ Len(output) = 2 + rows
        /\ Len(contributions) = 1 + rows
        /\ pc # "error"

====
